---- MODULE Spec2Model ----
(***************************************************************************)
(* A model of process_spoons.py: the pipeline that turns the raw pub/drink *)
(* snapshot into spoons.json (classifier is_beer, the per-pub reduction    *)
(* loop of main, the regional roll-up, the leaderboards and the write).    *)
(*                                                                         *)
(* Conventions.                                                            *)
(*  - A Python str is a sequence of one-character strings, so that lower(),*)
(*    strip(), the substring test `in` and float() are computed, not       *)
(*    assumed.                                                             *)
(*  - A JSON value is a record [k, n, s, b]: k is its kind ("absent" for a *)
(*    key the dict does not have, "null", "num", "str", "bool"), and n, s, *)
(*    b carry the number, the text or the boolean.                         *)
(*  - Money is counted in thousandths of a pound (3500 is 3.50), so that a *)
(*    price may have more than two decimals; ABV numbers in tenths.        *)
(*  - An exception ends the run: pc = "failed" and error names its type.   *)
(***************************************************************************)
EXTENDS Integers, Sequences, FiniteSets, TLC

VARIABLES raw, pc, idx, beers, clean_pubs, national_avg, regions, regional, output, file, error

vars == <<raw, pc, idx, beers, clean_pubs, national_avg, regions, regional, output, file, error>>

---------------------------------------------------------------------------
(* JSON values and dict access                                             *)

JAbsent == [k |-> "absent", n |-> 0, s |-> <<>>, b |-> FALSE]
JNull == [k |-> "null", n |-> 0, s |-> <<>>, b |-> FALSE]
JNum(x) == [k |-> "num", n |-> x, s |-> <<>>, b |-> FALSE]
JStr(t) == [k |-> "str", n |-> 0, s |-> t, b |-> FALSE]
JBool(v) == [k |-> "bool", n |-> 0, s |-> <<>>, b |-> v]

\* key in d
HasKey(d, key) == d[key].k # "absent"

\* d.get(key, default)
Get(d, key, default) == IF HasKey(d, key) THEN d[key] ELSE default

\* Python truth value of a JSON value (None, 0, "" and False are falsy)
Truthy(v) ==
    CASE v.k = "num" -> v.n # 0
      [] v.k = "str" -> v.s # <<>>
      [] v.k = "bool" -> v.b
      [] OTHER -> FALSE

---------------------------------------------------------------------------
(* str methods                                                             *)

UPPERCASE == <<"A","B","C","D","E","F","G","H","I","J","K","L","M","N","O","P","Q","R","S","T","U","V","W","X","Y","Z">>
LOWERCASE == <<"a","b","c","d","e","f","g","h","i","j","k","l","m","n","o","p","q","r","s","t","u","v","w","x","y","z">>
DIGITS == {"0", "1", "2", "3", "4", "5", "6", "7", "8", "9"}
WHITESPACE == {" ", "\t", "\n"}

\* the lower-case letter of each upper-case letter
LOWER_OF ==
    [c \in {UPPERCASE[i] : i \in DOMAIN UPPERCASE} |->
        LOWERCASE[CHOOSE i \in DOMAIN UPPERCASE : UPPERCASE[i] = c]]

lower_char(c) == IF c \in DOMAIN LOWER_OF THEN LOWER_OF[c] ELSE c

\* s.lower()
lower(s) == [i \in DOMAIN s |-> lower_char(s[i])]

\* s.strip()
strip(s) ==
    LET keep == {i \in DOMAIN s : s[i] \notin WHITESPACE}
    IN  IF keep = {} THEN <<>>
        ELSE SubSeq(s, CHOOSE i \in keep : \A j \in keep : i <= j,
                       CHOOSE i \in keep : \A j \in keep : j <= i)

\* sub in s
Contains(s, sub) ==
    \E i \in 0..(Len(s) - Len(sub)) : \A j \in DOMAIN sub : s[i + j] = sub[j]

---------------------------------------------------------------------------
(* float(x), as far as `float(abv) <= 0` reads it: whether the conversion  *)
(* raises, and otherwise whether the value is a NaN and what its sign is.  *)
(* Text is parsed by the grammar of float(): optional surrounding white    *)
(* space, an optional sign, then nan / inf / infinity in any case, or      *)
(* digits with at most one point and an optional exponent.                 *)

FloatOk(isnan, sign) == [exc |-> "none", nan |-> isnan, sgn |-> sign]
FloatRaise(e) == [exc |-> e, nan |-> FALSE, sgn |-> 0]

AllDigits(t) == \A i \in DOMAIN t : t[i] \in DIGITS

parse_float(text) ==
    LET t == lower(strip(text))
        signed == t # <<>> /\ Head(t) \in {"+", "-"}
        neg == t # <<>> /\ Head(t) = "-"
        u == IF signed THEN Tail(t) ELSE t
        es == {i \in DOMAIN u : u[i] = "e"}
        e1 == IF es = {} THEN Len(u) + 1 ELSE CHOOSE i \in es : \A j \in es : i <= j
        mant == SubSeq(u, 1, e1 - 1)
        expo == SubSeq(u, e1 + 1, Len(u))
        expd == IF expo # <<>> /\ Head(expo) \in {"+", "-"} THEN Tail(expo) ELSE expo
        points == {i \in DOMAIN mant : mant[i] = "."}
        digs == {i \in DOMAIN mant : mant[i] \in DIGITS}
        mant_ok == /\ Cardinality(points) <= 1
                   /\ digs # {}
                   /\ points \cup digs = DOMAIN mant
        expo_ok == es = {} \/ (expd # <<>> /\ AllDigits(expd))
        nonzero == \E i \in digs : mant[i] # "0"
    IN  IF u = <<"n","a","n">> THEN FloatOk(TRUE, 0)
        ELSE IF u \in {<<"i","n","f">>, <<"i","n","f","i","n","i","t","y">>} THEN FloatOk(FALSE, IF neg THEN -1 ELSE 1)
        ELSE IF mant_ok /\ expo_ok
             THEN FloatOk(FALSE, IF ~nonzero THEN 0 ELSE IF neg THEN -1 ELSE 1)
             ELSE FloatRaise("ValueError")

float(x) ==
    CASE x.k = "num" -> FloatOk(FALSE, IF x.n > 0 THEN 1 ELSE IF x.n < 0 THEN -1 ELSE 0)
      [] x.k = "bool" -> FloatOk(FALSE, IF x.b THEN 1 ELSE 0)
      [] x.k = "str" -> parse_float(x.s)
      [] OTHER -> FloatRaise("TypeError")

\* f <= 0 on floats: every comparison with a NaN is false
LeqZero(f) == ~f.nan /\ f.sgn <= 0

---------------------------------------------------------------------------
(* The classifier                                                          *)

BEER_CATS == <<<<"l","a","g","e","r">>, <<"b","e","e","r">>, <<"s","t","o","u","t">>, <<"c","r","a","f","t">>, <<"c","i","d","e","r">>, <<"a","l","e">>, <<"w","o","r","l","d"," ","b","e","e","r">>>>

exclude == <<<<"c","o","r","d","i","a","l">>, <<"j","u","i","c","e">>, <<"w","a","t","e","r">>, <<"c","o","f","f","e","e">>, <<"t","e","a">>, <<"p","e","p","s","i">>, <<"c","o","l","a">>,
             <<"l","e","m","o","n","a","d","e">>, <<"j","2","o">>, <<"a","p","p","l","e","t","i","s","e","r">>, <<"g","i","n","g","e","r">>>>

\* cat, f and name are bound (not LET-defined) so that each is computed once
is_beer(drink) ==
    \E f \in {float(Get(drink, "abv", JStr(<<>>)))} :
        IF f.exc = "none" /\ LeqZero(f) THEN FALSE
        ELSE IF f.exc # "none" /\
                ~(\E cat \in {lower(Get(drink, "cat", JStr(<<>>)).s)} :
                     \E i \in DOMAIN BEER_CATS : Contains(cat, BEER_CATS[i]))
             THEN FALSE
        ELSE IF \E name \in {lower(Get(drink, "name", JStr(<<>>)).s)} :
                   \E i \in DOMAIN exclude : Contains(name, exclude[i])
             THEN FALSE
        ELSE TRUE

---------------------------------------------------------------------------
(* Numbers and lists                                                       *)

RECURSIVE Sum(_)
\* sum(xs)
Sum(xs) == IF xs = <<>> THEN 0 ELSE Head(xs) + Sum(Tail(xs))

\* min(xs), max(xs) of a non-empty list
Min(xs) == CHOOSE x \in {xs[i] : i \in DOMAIN xs} : \A i \in DOMAIN xs : x <= xs[i]
Max(xs) == CHOOSE x \in {xs[i] : i \in DOMAIN xs} : \A i \in DOMAIN xs : xs[i] <= x

\* round(total / count, 2) for total >= 0 in thousandths: the nearest whole
\* hundredth.  When total / count lies exactly half way between two hundredths
\* the float that Python rounds is the nearest double of the quotient, which
\* falls on either side of (or on) the half-way point; both neighbours are
\* possible outcomes.
round2(total, count) ==
    LET unit == 10 * count
        lo == total \div unit
        rest == total % unit
    IN  IF 2 * rest < unit THEN {10 * lo}
        ELSE IF 2 * rest > unit THEN {10 * (lo + 1)}
        ELSE {10 * lo, 10 * (lo + 1)}

\* list.sort(key=...): a stable ascending sort; keys[i] is the key of xs[i]
sort_by(xs, keys) ==
    LET rank(i) == 1 + Cardinality({j \in DOMAIN xs :
                        \/ keys[j] < keys[i]
                        \/ (keys[j] = keys[i] /\ j < i)})
    IN  [r \in DOMAIN xs |-> xs[CHOOSE i \in DOMAIN xs : rank(i) = r]]

\* xs[::-1]
reversed(xs) == [i \in DOMAIN xs |-> xs[Len(xs) + 1 - i]]

\* xs[:n] and xs[-n:]
first_n(xs, n) == SubSeq(xs, 1, IF Len(xs) < n THEN Len(xs) ELSE n)
last_n(xs, n) == SubSeq(xs, IF Len(xs) < n THEN 1 ELSE Len(xs) - n + 1, Len(xs))

Ok(v) == [exc |-> "none", val |-> v]
Raise(e) == [exc |-> e, val |-> <<>>]

---------------------------------------------------------------------------
(* The body of the pub loop                                                *)

\* a variant of priced_in_stock that takes `is not None` for the truth test:
\* a price of 0 counts as a price
priced_non_null(d) == Get(d, "pint", JNull).k = "num" /\ ~Truthy(Get(d, "oos", JNull))

\* d.get('pint') and not d.get('oos')
priced_in_stock(d) == Truthy(Get(d, "pint", JNull)) /\ ~Truthy(Get(d, "oos", JNull))

\* [d for d in pub.get('drinks', []) if is_beer(d)]
beers_of(pub) == SelectSeq(pub.drinks, is_beer)

\* a variant of prices_of that forgets the stock flag
prices_of_any_stock(bs) ==
    LET has_price(d) == Truthy(Get(d, "pint", JNull))
        sel == SelectSeq(bs, has_price)
    IN  [i \in DOMAIN sel |-> sel[i].pint.n]

\* [d['pint'] for d in beers if d.get('pint') and not d.get('oos')]
prices_of(bs) ==
    LET sel == SelectSeq(bs, priced_in_stock)
    IN  [i \in DOMAIN sel |-> sel[i].pint.n]

RECURSIVE cheapest_name(_, _)
\* next((d['name'] for d in beers if d['pint'] == cheapest and not d.get('oos')), None)
\* d['pint'] and d['name'] are subscripts: a missing key raises KeyError.
cheapest_name(bs, cheapest) ==
    IF bs = <<>> THEN Ok(JNull)
    ELSE LET d == Head(bs)
         IN  IF ~HasKey(d, "pint") THEN Raise("KeyError")
             ELSE IF d.pint.k = "num" /\ d.pint.n = cheapest /\ ~Truthy(Get(d, "oos", JNull))
                  THEN IF HasKey(d, "name") THEN Ok(d.name) ELSE Raise("KeyError")
                  ELSE cheapest_name(Tail(bs), cheapest)

RECURSIVE dedup(_, _, _)
\* the loop that fills drink_list, with `seen` and the list so far
dedup(bs, seen, acc) ==
    IF bs = <<>> THEN Ok(acc)
    ELSE LET d == Head(bs)
         IN  IF ~priced_in_stock(d) THEN dedup(Tail(bs), seen, acc)
             ELSE IF ~HasKey(d, "name") THEN Raise("KeyError")
             ELSE IF <<d.name, d.pint.n>> \in seen THEN dedup(Tail(bs), seen, acc)
             ELSE dedup(Tail(bs), seen \cup {<<d.name, d.pint.n>>},
                        Append(acc, [name |-> d.name, price |-> d.pint.n,
                                     abv |-> Get(d, "abv", JStr(<<>>))]))

price_key(x) == x.price

\* a variant of drink_list without the sort
drink_list_unsorted(bs) == dedup(bs, {}, <<>>)

\* drink_list after drink_list.sort(key=lambda x: x['price'])
drink_list(bs) ==
    LET r == dedup(bs, {}, <<>>)
    IN  IF r.exc # "none" THEN r ELSE Ok(sort_by(r.val, [i \in DOMAIN r.val |-> price_key(r.val[i])]))

\* the dict appended to clean_pubs; pub['name'] and pub['town'] are subscripts
clean_pub(pub, avg, cheapest, most_exp, cheapest_nm, drinks) ==
    [name |-> pub.name, ref |-> Get(pub, "ref", JNull), town |-> pub.town,
     county |-> Get(pub, "county", JStr(<<>>)),
     postcode |-> Get(pub, "postcode", JStr(<<>>)),
     lat |-> Get(pub, "lat", JNull), lon |-> Get(pub, "lon", JNull),
     avg |-> avg, min |-> cheapest, max |-> most_exp, cheapest |-> cheapest_nm,
     beers |-> Len(drinks), drinks |-> drinks]

\* a variant of reduce_exc that reads the pub's name and town with .get()
reduce_exc_drinks_only(pub, bs, cheapest) ==
    IF cheapest_name(bs, cheapest).exc # "none" THEN cheapest_name(bs, cheapest).exc
    ELSE drink_list(bs).exc

\* the first exception raised by lines 60-91 for a pub that has prices
reduce_exc(pub, bs, cheapest) ==
    IF cheapest_name(bs, cheapest).exc # "none" THEN cheapest_name(bs, cheapest).exc
    ELSE IF drink_list(bs).exc # "none" THEN drink_list(bs).exc
    ELSE IF ~HasKey(pub, "name") \/ ~HasKey(pub, "town") THEN "KeyError"
    ELSE "none"

\* one iteration of `for pub in pubs`
ReducePub ==
    /\ pc = "reduce"
    /\ idx <= Len(raw.pubs)
    /\ beers' = beers_of(raw.pubs[idx])
    /\ LET pub == raw.pubs[idx]
           prices == prices_of(beers')
       IN  IF beers' = <<>> \/ prices = <<>>
           THEN /\ idx' = idx + 1
                /\ UNCHANGED <<pc, clean_pubs, error>>
           ELSE IF reduce_exc(pub, beers', Min(prices)) # "none"
           THEN /\ pc' = "failed"
                /\ error' = reduce_exc(pub, beers', Min(prices))
                /\ UNCHANGED <<idx, clean_pubs>>
           ELSE /\ \E avg \in round2(Sum(prices), Len(prices)) :
                      clean_pubs' = Append(clean_pubs,
                          clean_pub(pub, avg, Min(prices), Max(prices),
                                    cheapest_name(beers', Min(prices)).val,
                                    drink_list(beers').val))
                /\ idx' = idx + 1
                /\ UNCHANGED <<pc, error>>
    /\ UNCHANGED <<raw, national_avg, regions, regional, output, file>>

---------------------------------------------------------------------------
(* Sorting and the national average                                        *)

avg_key(p) == p.avg

all_avgs(ps) == [i \in DOMAIN ps |-> ps[i].avg]
all_mins(ps) == [i \in DOMAIN ps |-> ps[i].min]

\* clean_pubs.sort(key=lambda x: x['avg']) and national_avg, whose division
\* by len(all_avgs) raises ZeroDivisionError on an empty list
SortAndStats ==
    /\ pc = "reduce"
    /\ idx > Len(raw.pubs)
    /\ clean_pubs' = sort_by(clean_pubs, [i \in DOMAIN clean_pubs |-> avg_key(clean_pubs[i])])
    /\ IF clean_pubs = <<>>
       THEN /\ pc' = "failed"
            /\ error' = "ZeroDivisionError"
            /\ UNCHANGED national_avg
       ELSE /\ national_avg' \in round2(Sum(all_avgs(clean_pubs)), Len(clean_pubs))
            /\ pc' = "regions"
            /\ UNCHANGED error
    /\ UNCHANGED <<raw, idx, beers, regions, regional, output, file>>

---------------------------------------------------------------------------
(* Regions                                                                 *)

\* the dict literal, as its (key, value) pairs
REGION_MAP == {
    <<<<"C","a","m","d","e","n">>, <<"L","o","n","d","o","n">>>>,
    <<<<"C","i","t","y"," ","o","f"," ","L","o","n","d","o","n">>, <<"L","o","n","d","o","n">>>>,
    <<<<"F","a","r","r","i","n","g","d","o","n">>, <<"L","o","n","d","o","n">>>>,
    <<<<"H","a","c","k","n","e","y">>, <<"L","o","n","d","o","n">>>>,
    <<<<"H","a","m","m","e","r","s","m","i","t","h">>, <<"L","o","n","d","o","n">>>>,
    <<<<"H","a","m","m","e","r","s","m","i","t","h"," ","&"," ","F","u","l","h","a","m">>, <<"L","o","n","d","o","n">>>>,
    <<<<"I","s","l","i","n","g","t","o","n">>, <<"L","o","n","d","o","n">>>>,
    <<<<"L","a","m","b","e","t","h">>, <<"L","o","n","d","o","n">>>>,
    <<<<"L","e","w","i","s","h","a","m">>, <<"L","o","n","d","o","n">>>>,
    <<<<"S","o","u","t","h","w","a","r","k">>, <<"L","o","n","d","o","n">>>>,
    <<<<"T","o","w","e","r"," ","H","a","m","l","e","t","s">>, <<"L","o","n","d","o","n">>>>,
    <<<<"W","a","n","d","s","w","o","r","t","h">>, <<"L","o","n","d","o","n">>>>,
    <<<<"W","e","s","t","m","i","n","s","t","e","r">>, <<"L","o","n","d","o","n">>>>,
    <<<<"L","o","n","d","o","n">>, <<"L","o","n","d","o","n">>>>,
    <<<<"M","i","d","d","l","e","s","e","x">>, <<"L","o","n","d","o","n">>>>,
    <<<<"H","i","l","l","i","n","g","d","o","n">>, <<"L","o","n","d","o","n">>>>,
    <<<<"H","o","u","n","s","l","o","w">>, <<"L","o","n","d","o","n">>>>,
    <<<<"B","r","e","n","t">>, <<"L","o","n","d","o","n">>>>,
    <<<<"B","a","r","n","e","t">>, <<"L","o","n","d","o","n">>>>,
    <<<<"E","n","f","i","e","l","d">>, <<"L","o","n","d","o","n">>>>,
    <<<<"H","a","r","i","n","g","e","y">>, <<"L","o","n","d","o","n">>>>,
    <<<<"W","a","l","t","h","a","m"," ","F","o","r","e","s","t">>, <<"L","o","n","d","o","n">>>>,
    <<<<"R","e","d","b","r","i","d","g","e">>, <<"L","o","n","d","o","n">>>>,
    <<<<"N","e","w","h","a","m">>, <<"L","o","n","d","o","n">>>>,
    <<<<"B","a","r","k","i","n","g">>, <<"L","o","n","d","o","n">>>>,
    <<<<"B","a","r","k","i","n","g"," ","a","n","d"," ","D","a","g","e","n","h","a","m">>, <<"L","o","n","d","o","n">>>>,
    <<<<"H","a","v","e","r","i","n","g">>, <<"L","o","n","d","o","n">>>>,
    <<<<"B","e","x","l","e","y">>, <<"L","o","n","d","o","n">>>>,
    <<<<"B","r","o","m","l","e","y">>, <<"L","o","n","d","o","n">>>>,
    <<<<"C","r","o","y","d","o","n">>, <<"L","o","n","d","o","n">>>>,
    <<<<"S","u","t","t","o","n">>, <<"L","o","n","d","o","n">>>>,
    <<<<"M","e","r","t","o","n">>, <<"L","o","n","d","o","n">>>>,
    <<<<"K","i","n","g","s","t","o","n">>, <<"L","o","n","d","o","n">>>>,
    <<<<"K","i","n","g","s","t","o","n"," ","u","p","o","n"," ","T","h","a","m","e","s">>, <<"L","o","n","d","o","n">>>>,
    <<<<"R","i","c","h","m","o","n","d">>, <<"L","o","n","d","o","n">>>>,
    <<<<"R","i","c","h","m","o","n","d"," ","u","p","o","n"," ","T","h","a","m","e","s">>, <<"L","o","n","d","o","n">>>>,
    <<<<"E","a","l","i","n","g">>, <<"L","o","n","d","o","n">>>>,
    <<<<"G","r","e","e","n","w","i","c","h">>, <<"L","o","n","d","o","n">>>>,
    <<<<"W","o","o","l","w","i","c","h">>, <<"L","o","n","d","o","n">>>>,
    <<<<"H","a","r","r","o","w">>, <<"L","o","n","d","o","n">>>>,
    <<<<"K","e","n","s","i","n","g","t","o","n"," ","a","n","d"," ","C","h","e","l","s","e","a">>, <<"L","o","n","d","o","n">>>>,
    <<<<"K","e","n","s","i","n","g","t","o","n">>, <<"L","o","n","d","o","n">>>>,
    <<<<"C","h","e","l","s","e","a">>, <<"L","o","n","d","o","n">>>>,
    <<<<"E","d","i","n","b","u","r","g","h">>, <<"S","c","o","t","l","a","n","d">>>>,
    <<<<"G","l","a","s","g","o","w">>, <<"S","c","o","t","l","a","n","d">>>>,
    <<<<"L","a","n","a","r","k","s","h","i","r","e">>, <<"S","c","o","t","l","a","n","d">>>>,
    <<<<"S","o","u","t","h"," ","L","a","n","a","r","k","s","h","i","r","e">>, <<"S","c","o","t","l","a","n","d">>>>,
    <<<<"N","o","r","t","h"," ","L","a","n","a","r","k","s","h","i","r","e">>, <<"S","c","o","t","l","a","n","d">>>>,
    <<<<"F","i","f","e">>, <<"S","c","o","t","l","a","n","d">>>>,
    <<<<"R","e","n","f","r","e","w","s","h","i","r","e">>, <<"S","c","o","t","l","a","n","d">>>>,
    <<<<"E","a","s","t"," ","R","e","n","f","r","e","w","s","h","i","r","e">>, <<"S","c","o","t","l","a","n","d">>>>,
    <<<<"A","y","r","s","h","i","r","e">>, <<"S","c","o","t","l","a","n","d">>>>,
    <<<<"N","o","r","t","h"," ","A","y","r","s","h","i","r","e">>, <<"S","c","o","t","l","a","n","d">>>>,
    <<<<"E","a","s","t"," ","A","y","r","s","h","i","r","e">>, <<"S","c","o","t","l","a","n","d">>>>,
    <<<<"S","o","u","t","h"," ","A","y","r","s","h","i","r","e">>, <<"S","c","o","t","l","a","n","d">>>>,
    <<<<"I","n","v","e","r","n","e","s","s","-","s","h","i","r","e">>, <<"S","c","o","t","l","a","n","d">>>>,
    <<<<"H","i","g","h","l","a","n","d">>, <<"S","c","o","t","l","a","n","d">>>>,
    <<<<"H","i","g","h","l","a","n","d","s">>, <<"S","c","o","t","l","a","n","d">>>>,
    <<<<"A","n","g","u","s">>, <<"S","c","o","t","l","a","n","d">>>>,
    <<<<"A","b","e","r","d","e","e","n","s","h","i","r","e">>, <<"S","c","o","t","l","a","n","d">>>>,
    <<<<"A","b","e","r","d","e","e","n">>, <<"S","c","o","t","l","a","n","d">>>>,
    <<<<"P","e","r","t","h"," ","a","n","d"," ","K","i","n","r","o","s","s">>, <<"S","c","o","t","l","a","n","d">>>>,
    <<<<"P","e","r","t","h">>, <<"S","c","o","t","l","a","n","d">>>>,
    <<<<"D","u","n","d","e","e">>, <<"S","c","o","t","l","a","n","d">>>>,
    <<<<"S","t","i","r","l","i","n","g">>, <<"S","c","o","t","l","a","n","d">>>>,
    <<<<"D","u","n","b","a","r","t","o","n","s","h","i","r","e">>, <<"S","c","o","t","l","a","n","d">>>>,
    <<<<"W","e","s","t"," ","D","u","n","b","a","r","t","o","n","s","h","i","r","e">>, <<"S","c","o","t","l","a","n","d">>>>,
    <<<<"E","a","s","t"," ","D","u","n","b","a","r","t","o","n","s","h","i","r","e">>, <<"S","c","o","t","l","a","n","d">>>>,
    <<<<"B","o","r","d","e","r","s">>, <<"S","c","o","t","l","a","n","d">>>>,
    <<<<"S","c","o","t","t","i","s","h"," ","B","o","r","d","e","r","s">>, <<"S","c","o","t","l","a","n","d">>>>,
    <<<<"F","a","l","k","i","r","k">>, <<"S","c","o","t","l","a","n","d">>>>,
    <<<<"C","l","a","c","k","m","a","n","n","a","n","s","h","i","r","e">>, <<"S","c","o","t","l","a","n","d">>>>,
    <<<<"M","i","d","l","o","t","h","i","a","n">>, <<"S","c","o","t","l","a","n","d">>>>,
    <<<<"E","a","s","t"," ","L","o","t","h","i","a","n">>, <<"S","c","o","t","l","a","n","d">>>>,
    <<<<"W","e","s","t"," ","L","o","t","h","i","a","n">>, <<"S","c","o","t","l","a","n","d">>>>,
    <<<<"G","l","a","m","o","r","g","a","n">>, <<"W","a","l","e","s">>>>,
    <<<<"V","a","l","e"," ","o","f"," ","G","l","a","m","o","r","g","a","n">>, <<"W","a","l","e","s">>>>,
    <<<<"G","w","e","n","t">>, <<"W","a","l","e","s">>>>,
    <<<<"D","y","f","e","d">>, <<"W","a","l","e","s">>>>,
    <<<<"G","w","y","n","e","d","d">>, <<"W","a","l","e","s">>>>,
    <<<<"C","l","w","y","d">>, <<"W","a","l","e","s">>>>,
    <<<<"P","o","w","y","s">>, <<"W","a","l","e","s">>>>,
    <<<<"C","a","r","d","i","f","f">>, <<"W","a","l","e","s">>>>,
    <<<<"S","w","a","n","s","e","a">>, <<"W","a","l","e","s">>>>,
    <<<<"C","a","r","m","a","r","t","h","e","n","s","h","i","r","e">>, <<"W","a","l","e","s">>>>,
    <<<<"P","e","m","b","r","o","k","e","s","h","i","r","e">>, <<"W","a","l","e","s">>>>,
    <<<<"C","e","r","e","d","i","g","i","o","n">>, <<"W","a","l","e","s">>>>,
    <<<<"W","r","e","x","h","a","m">>, <<"W","a","l","e","s">>>>,
    <<<<"C","o","n","w","y">>, <<"W","a","l","e","s">>>>,
    <<<<"B","r","i","d","g","e","n","d">>, <<"W","a","l","e","s">>>>,
    <<<<"B","l","a","e","n","a","u"," ","G","w","e","n","t">>, <<"W","a","l","e","s">>>>,
    <<<<"C","a","e","r","p","h","i","l","l","y">>, <<"W","a","l","e","s">>>>,
    <<<<"M","o","n","m","o","u","t","h","s","h","i","r","e">>, <<"W","a","l","e","s">>>>,
    <<<<"R","h","o","n","d","d","a"," ","C","y","n","o","n"," ","T","a","f">>, <<"W","a","l","e","s">>>>,
    <<<<"N","e","a","t","h"," ","P","o","r","t"," ","T","a","l","b","o","t">>, <<"W","a","l","e","s">>>>,
    <<<<"T","o","r","f","a","e","n">>, <<"W","a","l","e","s">>>>,
    <<<<"N","e","w","p","o","r","t">>, <<"W","a","l","e","s">>>>,
    <<<<"F","l","i","n","t","s","h","i","r","e">>, <<"W","a","l","e","s">>>>,
    <<<<"D","e","n","b","i","g","h","s","h","i","r","e">>, <<"W","a","l","e","s">>>>,
    <<<<"A","n","g","l","e","s","e","y">>, <<"W","a","l","e","s">>>>,
    <<<<"I","s","l","e"," ","o","f"," ","A","n","g","l","e","s","e","y">>, <<"W","a","l","e","s">>>>,
    <<<<"M","e","r","t","h","y","r"," ","T","y","d","f","i","l">>, <<"W","a","l","e","s">>>>,
    <<<<"C","o","u","n","t","y"," ","A","n","t","r","i","m">>, <<"N","o","r","t","h","e","r","n"," ","I","r","e","l","a","n","d">>>>,
    <<<<"C","o","u","n","t","y"," ","D","o","w","n">>, <<"N","o","r","t","h","e","r","n"," ","I","r","e","l","a","n","d">>>>,
    <<<<"C","o","u","n","t","y"," ","A","r","m","a","g","h">>, <<"N","o","r","t","h","e","r","n"," ","I","r","e","l","a","n","d">>>>,
    <<<<"C","o","u","n","t","y"," ","T","y","r","o","n","e">>, <<"N","o","r","t","h","e","r","n"," ","I","r","e","l","a","n","d">>>>,
    <<<<"C","o","u","n","t","y"," ","L","o","n","d","o","n","d","e","r","r","y">>, <<"N","o","r","t","h","e","r","n"," ","I","r","e","l","a","n","d">>>>,
    <<<<"C","o","u","n","t","y"," ","F","e","r","m","a","n","a","g","h">>, <<"N","o","r","t","h","e","r","n"," ","I","r","e","l","a","n","d">>>>,
    <<<<"B","e","l","f","a","s","t">>, <<"N","o","r","t","h","e","r","n"," ","I","r","e","l","a","n","d">>>>,
    <<<<"A","n","t","r","i","m">>, <<"N","o","r","t","h","e","r","n"," ","I","r","e","l","a","n","d">>>>,
    <<<<"C","o","u","n","t","y"," ","D","u","b","l","i","n">>, <<"I","r","e","l","a","n","d">>>>,
    <<<<"D","u","b","l","i","n">>, <<"I","r","e","l","a","n","d">>>>,
    <<<<"C","o","u","n","t","y"," ","C","o","r","k">>, <<"I","r","e","l","a","n","d">>>>,
    <<<<"C","o","u","n","t","y"," ","G","a","l","w","a","y">>, <<"I","r","e","l","a","n","d">>>>,
    <<<<"C","o","u","n","t","y"," ","L","i","m","e","r","i","c","k">>, <<"I","r","e","l","a","n","d">>>>,
    <<<<"C","o","u","n","t","y"," ","W","a","t","e","r","f","o","r","d">>, <<"I","r","e","l","a","n","d">>>>,
    <<<<"C","o","u","n","t","y"," ","W","e","x","f","o","r","d">>, <<"I","r","e","l","a","n","d">>>>,
    <<<<"C","o","u","n","t","y"," ","K","i","l","d","a","r","e">>, <<"I","r","e","l","a","n","d">>>>,
    <<<<"K","e","n","t">>, <<"S","o","u","t","h"," ","E","a","s","t">>>>,
    <<<<"S","u","r","r","e","y">>, <<"S","o","u","t","h"," ","E","a","s","t">>>>,
    <<<<"S","u","s","s","e","x">>, <<"S","o","u","t","h"," ","E","a","s","t">>>>,
    <<<<"E","a","s","t"," ","S","u","s","s","e","x">>, <<"S","o","u","t","h"," ","E","a","s","t">>>>,
    <<<<"W","e","s","t"," ","S","u","s","s","e","x">>, <<"S","o","u","t","h"," ","E","a","s","t">>>>,
    <<<<"H","a","m","p","s","h","i","r","e">>, <<"S","o","u","t","h"," ","E","a","s","t">>>>,
    <<<<"B","e","r","k","s","h","i","r","e">>, <<"S","o","u","t","h"," ","E","a","s","t">>>>,
    <<<<"O","x","f","o","r","d","s","h","i","r","e">>, <<"S","o","u","t","h"," ","E","a","s","t">>>>,
    <<<<"B","u","c","k","i","n","g","h","a","m","s","h","i","r","e">>, <<"S","o","u","t","h"," ","E","a","s","t">>>>,
    <<<<"H","e","r","t","f","o","r","d","s","h","i","r","e">>, <<"S","o","u","t","h"," ","E","a","s","t">>>>,
    <<<<"E","s","s","e","x">>, <<"S","o","u","t","h"," ","E","a","s","t">>>>,
    <<<<"B","e","d","f","o","r","d","s","h","i","r","e">>, <<"S","o","u","t","h"," ","E","a","s","t">>>>,
    <<<<"D","e","v","o","n">>, <<"S","o","u","t","h"," ","W","e","s","t">>>>,
    <<<<"C","o","r","n","w","a","l","l">>, <<"S","o","u","t","h"," ","W","e","s","t">>>>,
    <<<<"S","o","m","e","r","s","e","t">>, <<"S","o","u","t","h"," ","W","e","s","t">>>>,
    <<<<"D","o","r","s","e","t">>, <<"S","o","u","t","h"," ","W","e","s","t">>>>,
    <<<<"W","i","l","t","s","h","i","r","e">>, <<"S","o","u","t","h"," ","W","e","s","t">>>>,
    <<<<"G","l","o","u","c","e","s","t","e","r","s","h","i","r","e">>, <<"S","o","u","t","h"," ","W","e","s","t">>>>,
    <<<<"B","r","i","s","t","o","l">>, <<"S","o","u","t","h"," ","W","e","s","t">>>>,
    <<<<"B","a","t","h">>, <<"S","o","u","t","h"," ","W","e","s","t">>>>,
    <<<<"B","a","t","h"," ","a","n","d"," ","N","o","r","t","h"," ","E","a","s","t"," ","S","o","m","e","r","s","e","t">>, <<"S","o","u","t","h"," ","W","e","s","t">>>>,
    <<<<"N","o","r","f","o","l","k">>, <<"E","a","s","t"," ","o","f"," ","E","n","g","l","a","n","d">>>>,
    <<<<"S","u","f","f","o","l","k">>, <<"E","a","s","t"," ","o","f"," ","E","n","g","l","a","n","d">>>>,
    <<<<"C","a","m","b","r","i","d","g","e","s","h","i","r","e">>, <<"E","a","s","t"," ","o","f"," ","E","n","g","l","a","n","d">>>>,
    <<<<"N","o","r","t","h","a","m","p","t","o","n","s","h","i","r","e">>, <<"E","a","s","t"," ","o","f"," ","E","n","g","l","a","n","d">>>>,
    <<<<"W","e","s","t"," ","M","i","d","l","a","n","d","s">>, <<"M","i","d","l","a","n","d","s">>>>,
    <<<<"W","a","r","w","i","c","k","s","h","i","r","e">>, <<"M","i","d","l","a","n","d","s">>>>,
    <<<<"S","t","a","f","f","o","r","d","s","h","i","r","e">>, <<"M","i","d","l","a","n","d","s">>>>,
    <<<<"W","o","r","c","e","s","t","e","r","s","h","i","r","e">>, <<"M","i","d","l","a","n","d","s">>>>,
    <<<<"S","h","r","o","p","s","h","i","r","e">>, <<"M","i","d","l","a","n","d","s">>>>,
    <<<<"H","e","r","e","f","o","r","d","s","h","i","r","e">>, <<"M","i","d","l","a","n","d","s">>>>,
    <<<<"D","e","r","b","y","s","h","i","r","e">>, <<"M","i","d","l","a","n","d","s">>>>,
    <<<<"N","o","t","t","i","n","g","h","a","m","s","h","i","r","e">>, <<"M","i","d","l","a","n","d","s">>>>,
    <<<<"L","e","i","c","e","s","t","e","r","s","h","i","r","e">>, <<"M","i","d","l","a","n","d","s">>>>,
    <<<<"L","i","n","c","o","l","n","s","h","i","r","e">>, <<"M","i","d","l","a","n","d","s">>>>,
    <<<<"R","u","t","l","a","n","d">>, <<"M","i","d","l","a","n","d","s">>>>,
    <<<<"B","i","r","m","i","n","g","h","a","m">>, <<"M","i","d","l","a","n","d","s">>>>,
    <<<<"C","o","v","e","n","t","r","y">>, <<"M","i","d","l","a","n","d","s">>>>,
    <<<<"S","o","l","i","h","u","l","l">>, <<"M","i","d","l","a","n","d","s">>>>,
    <<<<"G","r","e","a","t","e","r"," ","M","a","n","c","h","e","s","t","e","r">>, <<"N","o","r","t","h"," ","W","e","s","t">>>>,
    <<<<"L","a","n","c","a","s","h","i","r","e">>, <<"N","o","r","t","h"," ","W","e","s","t">>>>,
    <<<<"M","e","r","s","e","y","s","i","d","e">>, <<"N","o","r","t","h"," ","W","e","s","t">>>>,
    <<<<"C","h","e","s","h","i","r","e">>, <<"N","o","r","t","h"," ","W","e","s","t">>>>,
    <<<<"C","u","m","b","r","i","a">>, <<"N","o","r","t","h"," ","W","e","s","t">>>>,
    <<<<"M","a","n","c","h","e","s","t","e","r">>, <<"N","o","r","t","h"," ","W","e","s","t">>>>,
    <<<<"L","i","v","e","r","p","o","o","l">>, <<"N","o","r","t","h"," ","W","e","s","t">>>>,
    <<<<"S","t","o","c","k","p","o","r","t">>, <<"N","o","r","t","h"," ","W","e","s","t">>>>,
    <<<<"W","i","g","a","n">>, <<"N","o","r","t","h"," ","W","e","s","t">>>>,
    <<<<"B","o","l","t","o","n">>, <<"N","o","r","t","h"," ","W","e","s","t">>>>,
    <<<<"T","y","n","e"," ","a","n","d"," ","W","e","a","r">>, <<"N","o","r","t","h"," ","E","a","s","t">>>>,
    <<<<"C","o","u","n","t","y"," ","D","u","r","h","a","m">>, <<"N","o","r","t","h"," ","E","a","s","t">>>>,
    <<<<"N","o","r","t","h","u","m","b","e","r","l","a","n","d">>, <<"N","o","r","t","h"," ","E","a","s","t">>>>,
    <<<<"C","l","e","v","e","l","a","n","d">>, <<"N","o","r","t","h"," ","E","a","s","t">>>>,
    <<<<"N","e","w","c","a","s","t","l","e"," ","u","p","o","n"," ","T","y","n","e">>, <<"N","o","r","t","h"," ","E","a","s","t">>>>,
    <<<<"S","u","n","d","e","r","l","a","n","d">>, <<"N","o","r","t","h"," ","E","a","s","t">>>>,
    <<<<"G","a","t","e","s","h","e","a","d">>, <<"N","o","r","t","h"," ","E","a","s","t">>>>,
    <<<<"D","u","r","h","a","m">>, <<"N","o","r","t","h"," ","E","a","s","t">>>>,
    <<<<"T","e","e","s","s","i","d","e">>, <<"N","o","r","t","h"," ","E","a","s","t">>>>,
    <<<<"M","i","d","d","l","e","s","b","r","o","u","g","h">>, <<"N","o","r","t","h"," ","E","a","s","t">>>>,
    <<<<"S","o","u","t","h"," ","Y","o","r","k","s","h","i","r","e">>, <<"Y","o","r","k","s","h","i","r","e">>>>,
    <<<<"W","e","s","t"," ","Y","o","r","k","s","h","i","r","e">>, <<"Y","o","r","k","s","h","i","r","e">>>>,
    <<<<"N","o","r","t","h"," ","Y","o","r","k","s","h","i","r","e">>, <<"Y","o","r","k","s","h","i","r","e">>>>,
    <<<<"E","a","s","t"," ","R","i","d","i","n","g"," ","o","f"," ","Y","o","r","k","s","h","i","r","e">>, <<"Y","o","r","k","s","h","i","r","e">>>>,
    <<<<"S","h","e","f","f","i","e","l","d">>, <<"Y","o","r","k","s","h","i","r","e">>>>,
    <<<<"L","e","e","d","s">>, <<"Y","o","r","k","s","h","i","r","e">>>>,
    <<<<"Y","o","r","k">>, <<"Y","o","r","k","s","h","i","r","e">>>>,
    <<<<"B","r","a","d","f","o","r","d">>, <<"Y","o","r","k","s","h","i","r","e">>>>,
    <<<<"H","u","l","l">>, <<"Y","o","r","k","s","h","i","r","e">>>>,
    <<<<"K","i","n","g","s","t","o","n"," ","U","p","o","n"," ","H","u","l","l">>, <<"Y","o","r","k","s","h","i","r","e">>>>,
    <<<<"W","a","k","e","f","i","e","l","d">>, <<"Y","o","r","k","s","h","i","r","e">>>>,
    <<<<"C","a","l","d","e","r","d","a","l","e">>, <<"Y","o","r","k","s","h","i","r","e">>>>,
    <<<<"B","a","r","n","s","l","e","y">>, <<"Y","o","r","k","s","h","i","r","e">>>>,
    <<<<"D","o","n","c","a","s","t","e","r">>, <<"Y","o","r","k","s","h","i","r","e">>>>,
    <<<<"R","o","t","h","e","r","h","a","m">>, <<"Y","o","r","k","s","h","i","r","e">>>>,
    <<<<"K","i","r","k","l","e","e","s">>, <<"Y","o","r","k","s","h","i","r","e">>>>,
    <<<<"A","r","g","y","l","l"," ","a","n","d"," ","B","u","t","e">>, <<"S","c","o","t","l","a","n","d">>>>,
    <<<<"D","u","n","d","e","e"," ","C","i","t","y">>, <<"S","c","o","t","l","a","n","d">>>>,
    <<<<"D","u","m","f","r","i","e","s"," ","a","n","d"," ","G","a","l","l","o","w","a","y">>, <<"S","c","o","t","l","a","n","d">>>>,
    <<<<"M","o","r","a","y">>, <<"S","c","o","t","l","a","n","d">>>>,
    <<<<"I","n","v","e","r","c","l","y","d","e">>, <<"S","c","o","t","l","a","n","d">>>>,
    <<<<"S","t","o","c","k","t","o","n","-","o","n","-","T","e","e","s">>, <<"N","o","r","t","h"," ","E","a","s","t">>>>,
    <<<<"R","h","o","n","d","d","a"," ","C","y","n","o","n"," ","T","a","f","f">>, <<"W","a","l","e","s">>>>,
    <<<<"T","e","l","f","o","r","d"," ","&"," ","W","r","e","k","i","n">>, <<"M","i","d","l","a","n","d","s">>>>,
    <<<<"S","o","u","t","h"," ","G","l","o","u","c","e","s","t","e","r","s","h","i","r","e">>, <<"S","o","u","t","h"," ","W","e","s","t">>>>,
    <<<<"I","s","l","e"," ","o","f"," ","W","i","g","h","t">>, <<"S","o","u","t","h"," ","E","a","s","t">>>>,
    <<<<"G","r","e","a","t","e","r"," ","M","a","n","c","h","e","s","t","e","r"," ">>, <<"N","o","r","t","h"," ","W","e","s","t">>>> }

\* a variant of region_of that never consults the table
region_as_given(county) == county

\* REGION_MAP.get(county, county)
region_of(county) ==
    IF \E e \in REGION_MAP : e[1] = county
    THEN (CHOOSE e \in REGION_MAP : e[1] = county)[2]
    ELSE county

\* regions.setdefault(region, []).append(avg), on a dict kept in insertion order
setdefault_append(rs, region, avg) ==
    IF \E i \in DOMAIN rs : rs[i].name = region
    THEN [i \in DOMAIN rs |-> IF rs[i].name = region
                              THEN [rs[i] EXCEPT !.prices = Append(@, avg)]
                              ELSE rs[i]]
    ELSE Append(rs, [name |-> region, prices |-> <<avg>>])

RECURSIVE group(_, _)
\* for p in clean_pubs: county = p.get('county', '').strip() ...
\* a county of None has no strip(): AttributeError
group(ps, rs) ==
    IF ps = <<>> THEN Ok(rs)
    ELSE IF Head(ps).county.k # "str" THEN Raise("AttributeError")
    ELSE group(Tail(ps),
               setdefault_append(rs, region_of(strip(Head(ps).county.s)), Head(ps).avg))

GroupRegions ==
    /\ pc = "regions"
    /\ IF group(clean_pubs, <<>>).exc # "none"
       THEN /\ pc' = "failed"
            /\ error' = group(clean_pubs, <<>>).exc
            /\ UNCHANGED regions
       ELSE /\ regions' = group(clean_pubs, <<>>).val
            /\ pc' = "regional"
            /\ UNCHANGED error
    /\ UNCHANGED <<raw, idx, beers, clean_pubs, national_avg, regional, output, file>>

\* the entries a region can get, over the outcomes of its three round() calls
region_stats(r) ==
    {[name |-> r.name, avg |-> a, pubs |-> Len(r.prices), min |-> lo, max |-> hi] :
        a \in round2(Sum(r.prices), Len(r.prices)),
        lo \in round2(Min(r.prices), 1),
        hi \in round2(Max(r.prices), 1)}

\* a variant of enough_pubs that lets a single pub through
any_pubs(r) == Len(r.prices) >= 1

\* if len(prices) >= 2
enough_pubs(r) == Len(r.prices) >= 2

RECURSIVE regional_lists(_)
\* the lists `regional` can be before its sort
regional_lists(rs) ==
    IF rs = <<>> THEN {<<>>}
    ELSE IF ~enough_pubs(Head(rs)) THEN regional_lists(Tail(rs))
    ELSE {<<h>> \o t : h \in region_stats(Head(rs)), t \in regional_lists(Tail(rs))}

neg_avg_key(r) == 0 - r.avg

\* for name, prices in regions.items(): ...; regional.sort(key=lambda x: -x['avg'])
BuildRegional ==
    /\ pc = "regional"
    /\ \E l \in regional_lists(regions) : regional' = sort_by(l, [i \in DOMAIN l |-> neg_avg_key(l[i])])
    /\ pc' = "build"
    /\ UNCHANGED <<raw, idx, beers, clean_pubs, national_avg, regions, output, file, error>>

---------------------------------------------------------------------------
(* The report                                                              *)

LEADERBOARD == 20
DRINKS_SHOWN == 10

cheapest_entry(p) ==
    [name |-> p.name, town |-> p.town, postcode |-> p.postcode, avg |-> p.avg,
     min |-> p.min, cheapest |-> p.cheapest, lat |-> p.lat, lon |-> p.lon]

priciest_entry(p) ==
    [name |-> p.name, town |-> p.town, postcode |-> p.postcode, avg |-> p.avg,
     max |-> p.max, lat |-> p.lat, lon |-> p.lon]

pubs_entry(p) ==
    [name |-> p.name, town |-> p.town, county |-> p.county, postcode |-> p.postcode,
     lat |-> p.lat, lon |-> p.lon, avg |-> p.avg, min |-> p.min, max |-> p.max,
     cheapest |-> p.cheapest, beers |-> p.beers,
     drinks |-> first_n(p.drinks, DRINKS_SHOWN)]

\* [... for p in clean_pubs[:20]]
cheapest_board(ps) ==
    LET top == first_n(ps, LEADERBOARD) IN [i \in DOMAIN top |-> cheapest_entry(top[i])]

\* a variant of priciest_board without the reversal
priciest_board_unreversed(ps) ==
    LET top == last_n(ps, LEADERBOARD)
    IN  [i \in DOMAIN top |-> priciest_entry(top[i])]

\* [... for p in clean_pubs[-20:][::-1]]
priciest_board(ps) ==
    LET top == reversed(last_n(ps, LEADERBOARD))
    IN  [i \in DOMAIN top |-> priciest_entry(top[i])]

BuildOutput ==
    /\ pc = "build"
    /\ output' =
         [meta |-> [source |-> <<"W","e","t","h","e","r","s","p","o","o","n","s"," ","J","D","W"," ","A","p","p","s"," ","A","P","I">>,
                    fetchDate |-> Get(raw.meta, "fetchDate", JStr(<<>>)),
                    totalPubs |-> Len(clean_pubs),
                    totalBeers |-> Sum([i \in DOMAIN clean_pubs |-> clean_pubs[i].beers]),
                    avgPint |-> national_avg,
                    cheapestPint |-> Min(all_mins(clean_pubs)),
                    mostExpensivePint |-> Max([i \in DOMAIN clean_pubs |-> clean_pubs[i].max])],
          regional |-> regional,
          cheapest |-> cheapest_board(clean_pubs),
          priciest |-> priciest_board(clean_pubs),
          pubs |-> [i \in DOMAIN clean_pubs |-> pubs_entry(clean_pubs[i])]]
    /\ pc' = "write"
    /\ UNCHANGED <<raw, idx, beers, clean_pubs, national_avg, regions, regional, file, error>>

\* with open(OUTPUT, 'w') as f: json.dump(output, f)
WriteOutput ==
    /\ pc = "write"
    /\ file' = [written |-> TRUE, content |-> output]
    /\ pc' = "done"
    /\ UNCHANGED <<raw, idx, beers, clean_pubs, national_avg, regions, regional, output, error>>

NoFile == [written |-> FALSE, content |-> <<>>]
NoOutput == <<>>

---------------------------------------------------------------------------
(* Inputs: the snapshots a run starts from                                 *)

MaxDrinks == 3
MaxPubs == 3
MaxBoard == 22

Drink(nm, ct, av, pt, os) == [name |-> nm, cat |-> ct, abv |-> av, pint |-> pt, oos |-> os]

Venue(nm, tn, cty, ds) == [name |-> nm, town |-> tn, county |-> cty, drinks |-> ds]

\* the pub dict of venue v at position i of raw['pubs']; ref and lat are the position
pub_at(v, i) ==
    [name |-> v.name, ref |-> JNum(i), town |-> v.town, county |-> v.county,
     postcode |-> JStr(<<"A","B","1"," ","2","C","D">>), lat |-> JNum(i), lon |-> JNum(0), drinks |-> v.drinks]

snapshot(vs, date) ==
    [meta |-> [fetchDate |-> date], pubs |-> [i \in DOMAIN vs |-> pub_at(vs[i], i)]]

SeqsUpTo(S, n) == UNION {[1..k -> S] : k \in 0..n}

\* one drink with every combination of name, category and ABV
NAMES == {JAbsent, JStr(<<"L","a","g","e","r">>), JStr(<<"I","P","A">>), JStr(<<"P","e","p","s","i"," ","M","a","x">>),
          JStr(<<"G","I","N","G","E","R"," ","B","e","e","r">>), JStr(<<"S","t","e","a","m"," ","A","l","e">>)}
CATS == {JAbsent, JStr(<<>>), JStr(<<"L","a","g","e","r">>), JStr(<<"R","e","a","l"," ","A","L","E">>), JStr(<<"S","o","f","t"," ","D","r","i","n","k","s">>),
         JStr(<<"W","i","n","e">>)}
ABVS == {JAbsent, JNull, JNum(45), JNum(0), JNum(0 - 5), JStr(<<>>), JStr(<<"4",".","5">>),
         JStr(<<"0",".","0">>), JStr(<<"-","1">>), JStr(<<" ","5"," ">>), JStr(<<"n","/","a">>), JStr(<<"4",".","5","%">>),
         JStr(<<"n","a","n">>), JStr(<<"i","n","f">>)}

ClassifierInputs ==
    {snapshot(<<Venue(JStr(<<"T","h","e"," ","C","r","o","w","n">>), JStr(<<"L","e","e","d","s">>), JStr(<<"L","e","e","d","s">>),
                      <<Drink(nm, ct, av, JNum(3500), JAbsent)>>)>>, JAbsent) :
        nm \in NAMES, ct \in CATS, av \in ABVS}

\* one pub with up to MaxDrinks drinks of a catalogue
DRINKS ==
    {Drink(JStr(<<"L","a","g","e","r">>), JStr(<<"L","a","g","e","r">>), JStr(<<"4",".","0">>), JNum(3500), JAbsent),
     Drink(JStr(<<"B","i","t","t","e","r">>), JStr(<<"A","l","e">>), JNum(38), JNum(3500), JNull),
     Drink(JStr(<<"I","P","A">>), JStr(<<"C","r","a","f","t">>), JStr(<<"5",".","0">>), JNum(1006), JAbsent),
     Drink(JStr(<<"I","P","A">>), JStr(<<"C","r","a","f","t">>), JStr(<<"5",".","0">>), JNum(3510), JBool(FALSE)),
     Drink(JStr(<<"P","e","p","s","i"," ","M","a","x">>), JStr(<<"S","o","f","t">>), JStr(<<>>), JNum(2000), JAbsent),
     Drink(JStr(<<"S","t","o","u","t">>), JStr(<<"S","t","o","u","t">>), JStr(<<"4",".","2">>), JAbsent, JAbsent),
     Drink(JStr(<<"A","l","e">>), JStr(<<"A","l","e">>), JAbsent, JNum(0), JAbsent),
     Drink(JStr(<<"C","i","d","e","r">>), JStr(<<"C","i","d","e","r">>), JStr(<<"4",".","5">>), JNum(1000), JBool(TRUE)),
     Drink(JAbsent, JStr(<<"L","a","g","e","r">>), JStr(<<"4">>), JNum(2000), JAbsent),
     Drink(JAbsent, JStr(<<"L","a","g","e","r">>), JStr(<<"4">>), JNull, JAbsent)}

VenueInputs ==
    {snapshot(<<Venue(JStr(<<"T","h","e"," ","C","r","o","w","n">>), JStr(<<"L","e","e","d","s">>), JStr(<<"L","e","e","d","s">>), ds)>>, JAbsent) :
        ds \in SeqsUpTo(DRINKS, MaxDrinks)}

\* up to MaxPubs pubs of a catalogue
LAGER == Drink(JStr(<<"L","a","g","e","r">>), JStr(<<"L","a","g","e","r">>), JStr(<<"4",".","0">>), JNum(3500), JAbsent)
BITTER == Drink(JStr(<<"B","i","t","t","e","r">>), JStr(<<"A","l","e">>), JNum(38), JNum(3010), JAbsent)
PEPSI == Drink(JStr(<<"P","e","p","s","i"," ","M","a","x">>), JStr(<<"S","o","f","t">>), JStr(<<>>), JNum(2000), JAbsent)
NO_PRICE == Drink(JStr(<<"S","t","o","u","t">>), JStr(<<"S","t","o","u","t">>), JStr(<<"4",".","2">>), JNull, JAbsent)

VENUES ==
    {Venue(JStr(<<"T","h","e"," ","S","w","a","n">>), JStr(<<"L","o","n","d","o","n">>), JStr(<<"H","a","m","m","e","r","s","m","i","t","h">>), <<LAGER>>),
     Venue(JStr(<<"T","h","e"," ","S","h","i","p">>), JStr(<<"L","o","n","d","o","n">>), JStr(<<" ","C","a","m","d","e","n"," ">>), <<BITTER>>),
     Venue(JStr(<<"T","h","e"," ","M","e","r","m","a","i","d">>), JStr(<<"A","t","l","a","n","t","i","s">>), JStr(<<"A","t","l","a","n","t","i","s">>), <<LAGER, NO_PRICE, BITTER>>),
     Venue(JStr(<<"T","h","e"," ","L","o","s","t">>), JStr(<<"N","o","w","h","e","r","e">>), JAbsent, <<LAGER>>),
     Venue(JStr(<<"T","h","e"," ","V","o","i","d">>), JStr(<<"N","o","w","h","e","r","e">>), JNull, <<BITTER>>),
     Venue(JStr(<<"T","h","e"," ","D","r","y">>), JStr(<<"L","e","e","d","s">>), JStr(<<"L","e","e","d","s">>), <<PEPSI, NO_PRICE>>),
     Venue(JAbsent, JStr(<<"L","e","e","d","s">>), JStr(<<"L","e","e","d","s">>), <<LAGER>>),
     Venue(JStr(<<"T","h","e"," ","C","r","o","w","n">>), JAbsent, JStr(<<"L","e","e","d","s">>), <<BITTER>>),
     Venue(JAbsent, JStr(<<"L","e","e","d","s">>), JStr(<<"L","e","e","d","s">>), <<PEPSI, NO_PRICE>>)}

PipelineInputs ==
    {snapshot(vs, JStr(<<"2","0","2","4","-","0","5","-","0","1">>)) : vs \in SeqsUpTo(VENUES, MaxPubs)}

\* long lists of well-formed pubs with one beer each, for the leaderboards:
\* the price of pub i runs through m values from `off` in steps of `step`
board_venue(price) ==
    Venue(JStr(<<"T","h","e"," ","S","t","a","r">>), JStr(<<"K","e","n","t">>), JStr(<<"K","e","n","t">>),
          <<Drink(JStr(<<"L","a","g","e","r">>), JStr(<<"L","a","g","e","r">>), JStr(<<"4",".","0">>), JNum(price), JAbsent)>>)

BoardInputs ==
    {snapshot([i \in 1..n |-> board_venue(3000 + 10 * ((off + i * step) % m))], JAbsent) :
        n \in 1..MaxBoard, m \in {3, MaxBoard + 1}, step \in {1, 2, MaxBoard}, off \in {0, 1}}

---------------------------------------------------------------------------
(* The run of main()                                                       *)

Init ==
    /\ \/ raw \in ClassifierInputs
       \/ raw \in VenueInputs
       \/ raw \in PipelineInputs
       \/ raw \in BoardInputs
    /\ pc = "reduce"
    /\ idx = 1
    /\ beers = <<>>
    /\ clean_pubs = <<>>
    /\ national_avg = 0
    /\ regions = <<>>
    /\ regional = <<>>
    /\ output = NoOutput
    /\ file = NoFile
    /\ error = "none"

Next ==
    \/ ReducePub
    \/ SortAndStats
    \/ GroupRegions
    \/ BuildRegional
    \/ BuildOutput
    \/ WriteOutput

Spec == Init /\ [][Next]_vars

---------------------------------------------------------------------------
(* Vocabulary of the properties                                            *)

\* the pubs whose loop iteration has completed (dropped or appended)
Processed == 1..(idx - 1)

\* the loop is over and the run has gone on (or failed) after it
LoopDone == idx > Len(raw.pubs) /\ ~(pc = "reduce")

\* pub i of the input has an entry in clean_pubs (ref is its position)
Reduced(i) == \E k \in DOMAIN clean_pubs : clean_pubs[k].ref = JNum(i)

\* the input pub a reduced venue was made from
RawOf(p) == raw.pubs[p.ref.n]

OutOfStock(d) == Truthy(d.oos)
HasPrice(d) == d.pint.k = "num"
HasUsablePrice(d) == d.pint.k = "num" /\ ~(d.pint.n = 0)

\* accepted by the classifier, priced (not null, not 0) and in stock
Qualifies(d) == is_beer(d) /\ HasUsablePrice(d) /\ ~OutOfStock(d)

QualifyingPrices(pub) ==
    LET sel == SelectSeq(pub.drinks, Qualifies) IN [i \in DOMAIN sel |-> sel[i].pint.n]

\* the same prices as a set
QualifyingPriceSet(pub) ==
    {pub.drinks[i].pint.n : i \in {j \in DOMAIN pub.drinks : Qualifies(pub.drinks[j])}}

\* | total / count - h / 100 |, scaled by count, for total in thousandths
Distance(total, count, h) ==
    IF total >= 10 * h * count THEN total - 10 * h * count ELSE 10 * h * count - total

\* the 2-decimal values nearest to total / count (two of them at a half-way point)
NearestHundredths(total, count) ==
    LET below == total \div (10 * count)
        near == {below, below + 1}
    IN  {10 * h : h \in {c \in near : \A o \in near :
                            Distance(total, count, c) <= Distance(total, count, o)}}

MalformedVenue(pub) == ~HasKey(pub, "name") \/ ~HasKey(pub, "town")
NamelessDrink(pub) == \E i \in DOMAIN pub.drinks : ~HasKey(pub.drinks[i], "name")

---------------------------------------------------------------------------
(* C1: classifier                                                          *)

C1_AbvPositive(d) ==
    /\ float(Get(d, "abv", JStr(<<>>))).exc = "none"
    /\ ~float(Get(d, "abv", JStr(<<>>))).nan
    /\ float(Get(d, "abv", JStr(<<>>))).sgn > 0

C1_AbvUnparsed(d) == ~(float(Get(d, "abv", JStr(<<>>))).exc = "none")

C1_CategoryKeyword(d) ==
    \E i \in DOMAIN BEER_CATS : Contains(lower(Get(d, "cat", JStr(<<>>)).s), BEER_CATS[i])

C1_NameExcluded(d) ==
    \E i \in DOMAIN exclude : Contains(lower(Get(d, "name", JStr(<<>>)).s), exclude[i])

C1_Accepts(d) ==
    /\ C1_AbvPositive(d) \/ (C1_AbvUnparsed(d) /\ C1_CategoryKeyword(d))
    /\ ~C1_NameExcluded(d)

\* C1: the classifier accepts a drink if and only if (1) its ABV parses as a
\* number greater than 0, or does not parse and its lower-cased category
\* contains a category keyword, and (2) its lower-cased name contains no
\* exclusion keyword.  Stated of `beers`, the drinks of the pub just handled
\* that the classifier accepted.
C1_Claim ==
    (~(pc = "failed") /\ idx > 1) =>
        beers = SelectSeq(raw.pubs[idx - 1].drinks, C1_Accepts)

---------------------------------------------------------------------------
(* C2: venue statistics                                                    *)

C2_SameSet(p) ==
    \A ps \in {QualifyingPrices(RawOf(p))} :
        /\ ~(ps = <<>>)
        /\ p.min = Min(ps)
        /\ p.max = Max(ps)
        /\ p.avg \in NearestHundredths(Sum(ps), Len(ps))

C2_WholePence(p) == \A x \in QualifyingPriceSet(RawOf(p)) : x % 10 = 0

\* C2 as stated: for every reduced venue min_price <= average_price <=
\* max_price, and average_price is the 2-decimal rounded mean of the same
\* prices (in-stock, priced, classified drinks) that give min_price and
\* max_price.
C2_Original ==
    \A k \in DOMAIN clean_pubs :
        /\ C2_SameSet(clean_pubs[k])
        /\ clean_pubs[k].min <= clean_pubs[k].avg
        /\ clean_pubs[k].avg <= clean_pubs[k].max

\* C2 amended: average_price is the 2-decimal rounded mean of the same prices
\* that give min_price and max_price; it lies within half a penny of the
\* interval [min_price, max_price], and inside it when those prices are whole
\* pence.
C2_Amended ==
    \A k \in DOMAIN clean_pubs :
        /\ C2_SameSet(clean_pubs[k])
        /\ clean_pubs[k].min - 5 <= clean_pubs[k].avg
        /\ clean_pubs[k].avg <= clean_pubs[k].max + 5
        /\ C2_WholePence(clean_pubs[k]) =>
              /\ clean_pubs[k].min <= clean_pubs[k].avg
              /\ clean_pubs[k].avg <= clean_pubs[k].max

\* a reduced venue with several prices, whole pence, the average strictly between
C2_Witness ==
    \E k \in DOMAIN clean_pubs :
        /\ Len(QualifyingPrices(RawOf(clean_pubs[k]))) >= 2
        /\ C2_WholePence(clean_pubs[k])
        /\ clean_pubs[k].min < clean_pubs[k].avg
        /\ clean_pubs[k].avg < clean_pubs[k].max

---------------------------------------------------------------------------
(* C3: the deduplicated drinks list                                        *)

C3_Keys(pub) ==
    LET sel == SelectSeq(pub.drinks, Qualifies)
    IN  [i \in DOMAIN sel |-> <<sel[i].name, sel[i].pint.n>>]

C3_FirstAt(keys, key) ==
    CHOOSE i \in DOMAIN keys : keys[i] = key /\ \A j \in DOMAIN keys : keys[j] = key => i <= j

C3_Key(entry) == <<entry.name, entry.price>>

\* a simplified drink read back as an in-stock drink of the same name and price
C3_AsDrinks(ds) ==
    [i \in DOMAIN ds |-> Drink(ds[i].name, JAbsent, ds[i].abv, JNum(ds[i].price), JAbsent)]

C3_DrinksOk(p) ==
    LET ds == p.drinks
    IN  \A keys \in {C3_Keys(RawOf(p))} :
        /\ \A i, j \in DOMAIN ds : i < j => ~(C3_Key(ds[i]) = C3_Key(ds[j]))
        /\ {C3_Key(ds[i]) : i \in DOMAIN ds} = {keys[i] : i \in DOMAIN keys}
        /\ \A i, j \in DOMAIN ds : i < j =>
              /\ ds[i].price <= ds[j].price
              /\ ds[i].price = ds[j].price =>
                    C3_FirstAt(keys, C3_Key(ds[i])) < C3_FirstAt(keys, C3_Key(ds[j]))
        /\ p.beers = Len(ds)
        /\ drink_list(C3_AsDrinks(ds)) = Ok(ds)

\* C3: in every reduced venue the drinks list has no two entries with the
\* same (name, price), has exactly one entry for each distinct (name, price)
\* among the selected drinks, is non-decreasing by price with equal prices in
\* first-occurrence order, drink_count is its length, and deduplicating it
\* again leaves it unchanged.
C3_Theorem == \A k \in DOMAIN clean_pubs : C3_DrinksOk(clean_pubs[k])

\* a reduced venue where a duplicate was removed and two kept drinks tie on price
C3_Witness ==
    \E k \in DOMAIN clean_pubs :
        /\ Len(C3_Keys(RawOf(clean_pubs[k]))) > Len(clean_pubs[k].drinks)
        /\ \E i, j \in DOMAIN clean_pubs[k].drinks :
              i < j /\ clean_pubs[k].drinks[i].price = clean_pubs[k].drinks[j].price

---------------------------------------------------------------------------
(* C4: the minimum of two venues per region                                *)

C4_Region(p) == region_of(strip(p.county.s))

C4_Venues(r) == Cardinality({k \in DOMAIN clean_pubs : C4_Region(clean_pubs[k]) = r})

C4_Entries(r) == {e \in DOMAIN regional : regional[e].name = r}

\* C4: the regional output has exactly one entry for each resolved region
\* with at least 2 reduced venues, its venue count being the number of reduced
\* venues of the region, and no entry for a region with fewer than 2.
C4_Theorem ==
    (pc \in {"build", "write", "done"}) =>
        /\ \A k \in DOMAIN clean_pubs :
              /\ Cardinality(C4_Entries(C4_Region(clean_pubs[k]))) =
                    IF C4_Venues(C4_Region(clean_pubs[k])) >= 2 THEN 1 ELSE 0
              /\ \A e \in C4_Entries(C4_Region(clean_pubs[k])) :
                    regional[e].pubs = C4_Venues(C4_Region(clean_pubs[k]))
        /\ \A e \in DOMAIN regional : C4_Venues(regional[e].name) >= 2
        /\ (pc \in {"write", "done"}) => output.regional = regional
        /\ (pc = "done") => file.content.regional = regional

\* a written report with a region of two venues listed and a region of one left out
C4_Witness ==
    /\ pc = "done"
    /\ \E k \in DOMAIN clean_pubs : C4_Venues(C4_Region(clean_pubs[k])) = 1
    /\ \E e \in DOMAIN regional : regional[e].pubs = 2

---------------------------------------------------------------------------
(* C5: region of a venue                                                   *)

RECURSIVE C5_DropLeading(_)
C5_DropLeading(s) ==
    IF ~(s = <<>>) /\ Head(s) \in WHITESPACE THEN C5_DropLeading(Tail(s)) ELSE s

C5_Trimmed(s) == reversed(C5_DropLeading(reversed(C5_DropLeading(s))))

C5_Region(p) ==
    LET county == C5_Trimmed(p.county.s)
    IN  IF \E e \in REGION_MAP : e[1] = county
        THEN (CHOOSE e \in REGION_MAP : e[1] = county)[2]
        ELSE county

C5_Members(r) ==
    LET in_r(p) == C5_Region(p) = r
        ms == SelectSeq(clean_pubs, in_r)
    IN  [i \in DOMAIN ms |-> ms[i].avg]

\* C5: every reduced venue is grouped under the table's value for its trimmed
\* county when that is a key of the table, and under the trimmed county itself
\* otherwise; venues of counties with one canonical region share a group.
C5_Theorem ==
    (pc \in {"regional", "build", "write", "done"}) =>
        /\ \A k \in DOMAIN clean_pubs :
              \E g \in DOMAIN regions : regions[g].name = C5_Region(clean_pubs[k])
        /\ \A g \in DOMAIN regions : regions[g].prices = C5_Members(regions[g].name)
        /\ \A g, h \in DOMAIN regions : regions[g].name = regions[h].name => g = h

\* "Hammersmith" and " Camden " counted in one group London, "Atlantis" on its own
C5_Witness ==
    /\ pc = "regional"
    /\ \E k \in DOMAIN clean_pubs : clean_pubs[k].county = JStr(<<"H","a","m","m","e","r","s","m","i","t","h">>)
    /\ \E k \in DOMAIN clean_pubs : clean_pubs[k].county = JStr(<<" ","C","a","m","d","e","n"," ">>)
    /\ \E k \in DOMAIN clean_pubs : clean_pubs[k].county = JStr(<<"A","t","l","a","n","t","i","s">>)
    /\ \E g \in DOMAIN regions : regions[g].name = <<"L","o","n","d","o","n">> /\ Len(regions[g].prices) = 2
    /\ \E g \in DOMAIN regions : regions[g].name = <<"A","t","l","a","n","t","i","s">> /\ Len(regions[g].prices) = 1

---------------------------------------------------------------------------
(* C6: the leaderboards                                                    *)

C6_SameVenue(entry, listed) ==
    /\ entry.name = listed.name
    /\ entry.town = listed.town
    /\ entry.postcode = listed.postcode
    /\ entry.lat = listed.lat
    /\ entry.lon = listed.lon
    /\ entry.avg = listed.avg

C6_Size == IF Len(output.pubs) < 20 THEN Len(output.pubs) ELSE 20

\* C6: over n >= 1 reduced venues the full venue list is sorted ascending by
\* average price, venues of equal average in the order of the input; the
\* cheapest leaderboard is its first min(20, n) venues in the same order; the
\* priciest leaderboard is its last min(20, n) venues reversed, so it is
\* non-increasing by average price.
C6_Theorem ==
    (pc \in {"write", "done"} /\ Len(clean_pubs) >= 1) =>
        /\ Len(output.pubs) = Len(clean_pubs)
        /\ \A i, j \in DOMAIN output.pubs : i < j =>
              /\ output.pubs[i].avg <= output.pubs[j].avg
              /\ output.pubs[i].avg = output.pubs[j].avg =>
                    output.pubs[i].lat.n < output.pubs[j].lat.n
        /\ Len(output.cheapest) = C6_Size
        /\ \A k \in DOMAIN output.cheapest :
              /\ C6_SameVenue(output.cheapest[k], output.pubs[k])
              /\ output.cheapest[k].min = output.pubs[k].min
              /\ output.cheapest[k].cheapest = output.pubs[k].cheapest
        /\ Len(output.priciest) = C6_Size
        /\ \A k \in DOMAIN output.priciest :
              /\ C6_SameVenue(output.priciest[k], output.pubs[Len(output.pubs) + 1 - k])
              /\ output.priciest[k].max = output.pubs[Len(output.pubs) + 1 - k].max
        /\ \A k \in DOMAIN output.priciest : k < Len(output.priciest) =>
              output.priciest[k].avg >= output.priciest[k + 1].avg
        /\ (pc = "done") => file.content = output

\* a written report over more than 20 venues given out of order, some of equal average
C6_Witness ==
    /\ pc = "done"
    /\ Len(output.pubs) > 20
    /\ ~(output.pubs[1].lat.n = 1)
    /\ \E i \in DOMAIN output.pubs : i < 20 /\ output.pubs[i].avg = output.pubs[i + 1].avg
    /\ output.cheapest[1].avg < output.priciest[1].avg
    /\ ~(output.priciest[20].lat = output.cheapest[1].lat)

---------------------------------------------------------------------------
(* C7: no venue survives                                                   *)

\* the exceptions of the interpreter that leave main() as a bare traceback;
\* main() has no handler and raises nothing of its own
UNCAUGHT == {"ZeroDivisionError", "KeyError", "AttributeError"}

\* C7: when no venue survives reduction the run ends in a run-level failure
\* with a descriptive error identifying the failing stage, reached before the
\* output is written, and no output file is written.
C7_Claim ==
    (LoopDone /\ clean_pubs = <<>>) =>
        /\ pc = "failed"
        /\ ~file.written
        /\ error \notin UNCAUGHT

---------------------------------------------------------------------------
(* C8: malformed records                                                   *)

C8_Malformed ==
    \E i \in DOMAIN raw.pubs : MalformedVenue(raw.pubs[i]) \/ NamelessDrink(raw.pubs[i])

\* C8 as stated: whenever the input has a venue missing name or town, or a
\* drink missing its name, the run ends in a fatal error and no report is
\* produced, whatever the drinks of that venue and the state of that drink.
C8_Original == C8_Malformed => (~(pc = "done") /\ ~file.written)

\* the venue has a qualifying drink and lacks name or town, or has a qualifying
\* drink without name
C8_Fatal(pub) ==
    \E i \in DOMAIN pub.drinks :
        /\ Qualifies(pub.drinks[i])
        /\ MalformedVenue(pub) \/ ~HasKey(pub.drinks[i], "name")

C8_FirstFatal ==
    CHOOSE i \in DOMAIN raw.pubs :
        C8_Fatal(raw.pubs[i]) /\ \A j \in DOMAIN raw.pubs : C8_Fatal(raw.pubs[j]) => i <= j

\* C8 amended: whenever the input has a venue missing name or town that has a
\* classified, priced, in-stock drink, or has such a drink missing its name,
\* the run ends in a fatal error (KeyError) no later than at that venue and no
\* report is produced.
C8_Amended ==
    (\E i \in DOMAIN raw.pubs : C8_Fatal(raw.pubs[i])) =>
        /\ pc \in {"reduce", "failed"}
        /\ idx <= C8_FirstFatal
        /\ (pc = "failed") => error = "KeyError"
        /\ ~file.written

\* the run has failed at a venue without name or town that has a qualifying drink
C8_Witness ==
    /\ pc = "failed"
    /\ error = "KeyError"
    /\ idx <= Len(raw.pubs)
    /\ MalformedVenue(raw.pubs[idx])
    /\ C8_Fatal(raw.pubs[idx])
    /\ ~NamelessDrink(raw.pubs[idx])

---------------------------------------------------------------------------
(* C9: which venues are reduced                                            *)

C9_QualifiesAsStated(d) == is_beer(d) /\ HasPrice(d) /\ ~OutOfStock(d)

C9_PricesAsStated(pub) ==
    {pub.drinks[i].pint.n : i \in {j \in DOMAIN pub.drinks : C9_QualifiesAsStated(pub.drinks[j])}}

C9_Listed(p) == {p.drinks[i].price : i \in DOMAIN p.drinks}

\* C9 as stated: a venue yields a reduced venue if and only if one of its
\* drinks is accepted by the classifier, has a non-null price and is not
\* flagged out-of-stock; the selected prices are those of all such drinks,
\* a price of 0 included.
C9_Original ==
    /\ \A i \in Processed : Reduced(i) <=> ~(C9_PricesAsStated(raw.pubs[i]) = {})
    /\ \A k \in DOMAIN clean_pubs :
          C9_Listed(clean_pubs[k]) = C9_PricesAsStated(RawOf(clean_pubs[k]))

\* C9 amended: a venue whose iteration completes yields a reduced venue if and
\* only if one of its drinks is accepted by the classifier, has a price that
\* is neither null nor 0 and is not flagged out-of-stock; a venue without such
\* a drink is dropped and never raises; the selected prices are those of all
\* such drinks.
C9_Amended ==
    /\ \A i \in Processed : Reduced(i) <=> ~(QualifyingPriceSet(raw.pubs[i]) = {})
    /\ (pc = "failed" /\ idx <= Len(raw.pubs)) => ~(QualifyingPriceSet(raw.pubs[idx]) = {})
    /\ \A k \in DOMAIN clean_pubs :
          \A ps \in {QualifyingPriceSet(RawOf(clean_pubs[k]))} :
              /\ C9_Listed(clean_pubs[k]) = ps
              /\ clean_pubs[k].min \in ps
              /\ clean_pubs[k].max \in ps
              /\ \A x \in ps : clean_pubs[k].min <= x /\ x <= clean_pubs[k].max

\* a venue reduced from a priced beer while its second beer, priced 0, was left out
C9_Witness ==
    \E k \in DOMAIN clean_pubs :
        /\ 0 \in C9_PricesAsStated(RawOf(clean_pubs[k]))
        /\ 0 \notin C9_Listed(clean_pubs[k])

---------------------------------------------------------------------------
(* C10: a well-formed venue                                                *)

C10_WellFormed(pub) == ~MalformedVenue(pub) /\ ~NamelessDrink(pub)

\* the name of the first in-stock classified drink priced at the venue's minimum
C10_Cheapest(p) ==
    LET ds == RawOf(p).drinks
        at_min(i) == is_beer(ds[i]) /\ ~OutOfStock(ds[i]) /\ ds[i].pint = JNum(p.min)
    IN  ds[CHOOSE i \in DOMAIN ds : at_min(i) /\ \A j \in DOMAIN ds : at_min(j) => i <= j].name

\* C10: reducing a venue that has name and town and whose drinks all have a
\* name never raises, whether price, ABV and out-of-stock flag of a drink are
\* present, null or absent and in every order of the drinks; the venue is
\* dropped or reduced, cheapest_drink_name being the name of the first
\* in-stock classified drink whose price is min_price.
C10_Claim ==
    /\ (pc = "failed" /\ idx <= Len(raw.pubs)) => ~C10_WellFormed(raw.pubs[idx])
    /\ \A k \in DOMAIN clean_pubs : clean_pubs[k].cheapest = C10_Cheapest(clean_pubs[k])


====
